---- MODULE Spec2Model ----
(***************************************************************************)
(* IrActionsReport._run_wkhtmltopdf                                        *)
(* (src/wkhtmltopdf_log/models/ir_actions_report.py) as a state machine.   *)
(*                                                                         *)
(* One call is followed statement by statement: staging of the header,     *)
(* footer and body temp files, creation of the output file, start of the   *)
(* subprocess, communicate(), exit-code classification, read-back of the   *)
(* PDF and the clean-up loop.  Every I/O statement can raise; the temp     *)
(* directory may already hold files left by earlier calls.                 *)
(***************************************************************************)
EXTENDS Integers, Sequences, FiniteSets, TLC

\* ------------------------------------------------------------------ bounds

\* Largest number of bodies in one call.
MaxBodies == 2
\* Number of random infixes tempfile.mkstemp can draw for one prefix.
NRand == 1
\* stderr lengths go up to StderrTail + MaxErrExtra in SpecErr.
MaxErrExtra == 2

\* err[-1000:]
StderrTail == 1000

\* ------------------------------------------------------------------ values

Min(a, b) == IF a < b THEN a ELSE b
Max(a, b) == IF a > b THEN a ELSE b

\* Python's None and a bytes object, as one shape.
None == [isNone |-> TRUE, bytes |-> <<>>]
Bytes(s) == [isNone |-> FALSE, bytes |-> s]

\* Truth value of `header` / `footer` in `if header:`.
TruthyNotNone(x) == ~x.isNone
Truthy(x) == ~x.isNone /\ Len(x.bytes) > 0

DigitChars == <<"0", "1", "2", "3", "4", "5", "6", "7", "8", "9">>

RECURSIVE NatToStr(_)
NatToStr(n) ==
    IF n < 10 THEN <<DigitChars[n + 1]>>
    ELSE NatToStr(n \div 10) \o <<DigitChars[(n % 10) + 1]>>

\* str(n) and "%d" % n, as a sequence of characters.
IntToStr(n) == IF n < 0 THEN <<"-">> \o NatToStr(-n) ELSE NatToStr(n)

\* ------------------------------------------------------------------ temp files

\* A word of the command line.  A temp-file path is the word
\* prefix + random infix + suffix; a literal word has no infix.
Word(s) == [prefix |-> <<s>>, rnd |-> 0, suffix |-> ""]

HeaderPrefix == <<"report.header.tmp.">>
FooterPrefix == <<"report.footer.tmp.">>
\* "%s%d." % ("report.body.tmp.", i)
BodyPrefix(n) == <<"report.body.tmp.">> \o IntToStr(n) \o <<".">>
PdfPrefix == <<"report.tmp.">>

PathsOf(prefix, suffix) ==
    {[prefix |-> prefix, rnd |-> r, suffix |-> suffix] : r \in 1..NRand}

AllPaths ==
    PathsOf(HeaderPrefix, ".html") \cup PathsOf(FooterPrefix, ".html")
    \cup UNION {PathsOf(BodyPrefix(n), ".html") : n \in 0..(MaxBodies - 1)}
    \cup PathsOf(PdfPrefix, ".pdf")

NoPath == [prefix |-> <<>>, rnd |-> 0, suffix |-> ""]

\* ------------------------------------------------------------------ inputs

HeaderInputs == {None, Bytes(<<>>), Bytes(<<104>>)}
FooterInputs == {None, Bytes(<<>>), Bytes(<<102>>)}
BodyContents == {<<>>, <<98>>}
BodiesInputs == UNION {[1..n -> BodyContents] : n \in 0..MaxBodies}
\* What _build_wkhtmltopdf_args returns.
CommandArgsInputs ==
    {<<Word("--quiet")>>,
     <<Word("--quiet"), Word("--orientation"), Word("landscape")>>}
WkhtmltopdfBin == Word("/usr/local/bin/wkhtmltopdf")

\* process.returncode: -N for signal N, else the exit status.
ExitCodes == {-11, -6, 0, 1, 2, 11}
ErrInputs == {<<>>, <<69, 10>>}
PdfOutputs == {<<>>, <<37, 80, 68, 70>>}

\* stderr of length n; the unit at position p depends on p.
MkErr(n) == [p \in 1..n |-> IF p % 7 = 0 THEN 10 ELSE 97 + (p % 5)]
LongErrLens ==
    {0, 1, 6, 7} \cup ((StderrTail - 2)..(StderrTail + MaxErrExtra))
LongErrInputs == {MkErr(n) : n \in LongErrLens}

\* ------------------------------------------------------------------ state

VARIABLES
    pc,                  \* position in _run_wkhtmltopdf
    bodies, header, footer, command_args,
    files_command_args, temporary_files, paths,
    pdf_report_path,
    wkhtmltopdf,         \* the command line, <<>> before line 78
    returncode,          \* <<>> while None, <<c>> once the process exited
    err,
    pdf_content,
    unlink_idx,          \* position of the loop of line 110
    result,              \* how the call ended
    log_warning,         \* _logger.warning records
    log_error,           \* _logger.error records (the file of each)
    fs,                  \* the temp directory: path -> file
    created,             \* history: paths mkstemp returned in this call
    unlink_attempts,     \* history: os.unlink calls per path
    popen_count,         \* history: subprocess.Popen calls that started a process
    classify_count,      \* history: evaluations of line 93
    read_count,          \* history: reads of the output PDF
    rendered             \* history: what the process wrote as its output

vars == <<pc, bodies, header, footer, command_args, files_command_args,
          temporary_files, paths, pdf_report_path, wkhtmltopdf, returncode,
          err, pdf_content, unlink_idx, result, log_warning, log_error, fs,
          created, unlink_attempts, popen_count, classify_count, read_count,
          rendered>>

inputs == <<bodies, header, footer, command_args>>
logs == <<log_warning, log_error>>

File(content, isOpen) == [content |-> content, open |-> isOpen]

Exists(p) == p \in DOMAIN fs
Remove(p) == [q \in (DOMAIN fs) \ {p} |-> fs[q]]

\* Files left in the temp directory by earlier calls: the first k infixes of
\* every prefix are taken.
StaleFs(k) == [p \in {q \in AllPaths : q.rnd <= k} |-> File(<<>>, FALSE)]

NoMessage == [fmt |-> "", args |-> <<>>]
NoResult == [kind |-> "none", exc |-> "", value |-> <<>>, message |-> NoMessage]
Returned(v) == [NoResult EXCEPT !.kind = "return", !.value = v]
Raised(e, m) == [NoResult EXCEPT !.kind = "raise", !.exc = e, !.message = m]

InitCall ==
    /\ pc = "idle"
    /\ bodies = <<>> /\ header = None /\ footer = None /\ command_args = <<>>
    /\ files_command_args = <<>> /\ temporary_files = <<>> /\ paths = <<>>
    /\ pdf_report_path = NoPath
    /\ wkhtmltopdf = <<>>
    /\ returncode = <<>>
    /\ err = <<>>
    /\ pdf_content = <<>>
    /\ unlink_idx = 0
    /\ result = NoResult
    /\ log_warning = <<>> /\ log_error = <<>>
    /\ created = {}
    /\ unlink_attempts = [p \in AllPaths |-> 0]
    /\ popen_count = 0 /\ classify_count = 0 /\ read_count = 0
    /\ rendered = <<>>

Init ==
    /\ InitCall
    /\ \E k \in 0..NRand : fs = StaleFs(k)

\* ------------------------------------------------------------------ helpers

\* tempfile.mkstemp(suffix, prefix): the names it can return (O_EXCL: never
\* one that exists).
Mkstemp(prefix, suffix) == {p \in PathsOf(prefix, suffix) : ~Exists(p)}

\* `with closing(os.fdopen(fd, "wb")) as f: f.write(content)`: the file as
\* the with block leaves it.
WriteNoClose(content) == File(content, TRUE)
WriteClose(content) == File(content, FALSE)

\* temporary_files.append(path)
TemporaryFilesForget(tf, p) == tf
TemporaryFilesAppend(tf, p) == Append(tf, p)

\* Line 78.
CommandOutputFirst(bin, ca, fca, ps, out) == <<bin>> \o ca \o <<out>> \o fca \o ps
Command(bin, ca, fca, ps, out) == <<bin>> \o ca \o fca \o ps \o <<out>>

\* Line 93.
FatalUnlessZero(rc) == rc # 0
Fatal(rc) == rc \notin {0, 1}

MsgOom == "Wkhtmltopdf failed (error code: %s). Memory limit too low or maximum file number of subprocess reached. Message : %s"
MsgGeneric == "Wkhtmltopdf failed (error code: %s). Message: %s"

\* Lines 94-98.
MessageTemplateAbs(rc) == IF rc = -11 \/ rc = 11 THEN MsgOom ELSE MsgGeneric
MessageTemplate(rc) == IF rc = -11 THEN MsgOom ELSE MsgGeneric

\* err[-1000:]
Head1000(e) == SubSeq(e, 1, Min(Len(e), StderrTail))
ErrTail(e) == SubSeq(e, Max(Len(e) - StderrTail, 0) + 1, Len(e))

\* One byte as "%s" % <bytes> shows it (the repr of a bytes object), in
\* character codes: newline, quote and backslash are escaped.
ByteRepr(b) ==
    IF b = 10 THEN <<92, 110>>
    ELSE IF b = 39 THEN <<92, 39>>
    ELSE IF b = 92 THEN <<92, 92>>
    ELSE <<b>>
BytesRepr(s) == <<<<98, 39>>>> \o [p \in 1..Len(s) |-> ByteRepr(s[p])] \o <<<<39>>>>

\* Line 99: message % (str(process.returncode), err[-1000:])
UserErrorMessage(rc, e) ==
    [fmt |-> MessageTemplate(rc), args |-> <<IntToStr(rc), BytesRepr(ErrTail(e))>>]

\* Line 101: `if err:`
WarnsOnCode(rc, e) == rc = 1
Warns(rc, e) == Len(e) > 0

\* Lines 113-114: the loop goes on with the next file.
StopOnUnlinkError(idx) == Len(temporary_files) + 1
AfterUnlinkError(idx) == idx + 1

Raise(e) ==
    /\ pc' = "raised"
    /\ result' = Raised(e, NoMessage)

\* ------------------------------------------------------------------ actions

\* Lines 40-50: the call is entered with its arguments.
CallWith(H, F, B, CA) ==
    /\ pc = "idle"
    /\ \E h \in H, f \in F, b \in B, ca \in CA :
        /\ header' = h /\ footer' = f /\ bodies' = b /\ command_args' = ca
    /\ pc' = "header"
    /\ UNCHANGED <<files_command_args, temporary_files, paths, pdf_report_path,
                   wkhtmltopdf, returncode, err, pdf_content, unlink_idx,
                   result, logs, fs, created, unlink_attempts, popen_count,
                   classify_count, read_count,
                   rendered>>

Call == CallWith(HeaderInputs, FooterInputs, BodiesInputs, CommandArgsInputs)

\* Lines 51-56.
StageHeader ==
    /\ pc = "header"
    /\ \/ /\ ~Truthy(header)
          /\ pc' = "footer"
          /\ UNCHANGED <<files_command_args, temporary_files, fs, created, result>>
       \/ /\ Truthy(header)
          /\ \E p \in Mkstemp(HeaderPrefix, ".html") :
               /\ fs' = (p :> WriteClose(header.bytes)) @@ fs
               /\ created' = created \cup {p}
               /\ temporary_files' = TemporaryFilesAppend(temporary_files, p)
               /\ files_command_args' =
                      files_command_args \o <<Word("--header-html"), p>>
          /\ pc' = "footer"
          /\ UNCHANGED result
       \/ /\ Truthy(header)      \* head_file.write raises; closing() closes
          /\ \E p \in Mkstemp(HeaderPrefix, ".html") :
               /\ fs' = (p :> WriteClose(<<>>)) @@ fs
               /\ created' = created \cup {p}
          /\ Raise("OSError")
          /\ UNCHANGED <<files_command_args, temporary_files>>
       \/ /\ Truthy(header)      \* mkstemp raises
          /\ Raise("OSError")
          /\ UNCHANGED <<files_command_args, temporary_files, fs, created>>
    /\ UNCHANGED <<inputs, paths, pdf_report_path, wkhtmltopdf, returncode, err,
                   pdf_content, unlink_idx, logs, unlink_attempts, popen_count,
                   classify_count, read_count,
                   rendered>>

\* Lines 57-62.
StageFooter ==
    /\ pc = "footer"
    /\ \/ /\ ~Truthy(footer)
          /\ pc' = "bodies"
          /\ UNCHANGED <<files_command_args, temporary_files, fs, created, result>>
       \/ /\ Truthy(footer)
          /\ \E p \in Mkstemp(FooterPrefix, ".html") :
               /\ fs' = (p :> WriteClose(footer.bytes)) @@ fs
               /\ created' = created \cup {p}
               /\ temporary_files' = TemporaryFilesAppend(temporary_files, p)
               /\ files_command_args' =
                      files_command_args \o <<Word("--footer-html"), p>>
          /\ pc' = "bodies"
          /\ UNCHANGED result
       \/ /\ Truthy(footer)      \* foot_file.write raises; closing() closes
          /\ \E p \in Mkstemp(FooterPrefix, ".html") :
               /\ fs' = (p :> WriteClose(<<>>)) @@ fs
               /\ created' = created \cup {p}
          /\ Raise("OSError")
          /\ UNCHANGED <<files_command_args, temporary_files>>
       \/ /\ Truthy(footer)      \* mkstemp raises
          /\ Raise("OSError")
          /\ UNCHANGED <<files_command_args, temporary_files, fs, created>>
    /\ UNCHANGED <<inputs, paths, pdf_report_path, wkhtmltopdf, returncode, err,
                   pdf_content, unlink_idx, logs, unlink_attempts, popen_count,
                   classify_count, read_count,
                   rendered>>

\* Lines 64-71: one iteration of `for i, body in enumerate(bodies)`; i is
\* Len(paths), the number of bodies staged so far.
StageBody ==
    /\ pc = "bodies"
    /\ Len(paths) < Len(bodies)
    /\ LET n == Len(paths)
           body == bodies[n + 1]
       IN \/ /\ \E p \in Mkstemp(BodyPrefix(n), ".html") :
                  /\ fs' = (p :> WriteClose(body)) @@ fs
                  /\ created' = created \cup {p}
                  /\ paths' = Append(paths, p)
                  /\ temporary_files' = TemporaryFilesAppend(temporary_files, p)
             /\ UNCHANGED <<pc, result>>
          \/ /\ \E p \in Mkstemp(BodyPrefix(n), ".html") :   \* write raises
                  /\ fs' = (p :> WriteClose(<<>>)) @@ fs
                  /\ created' = created \cup {p}
             /\ Raise("OSError")
             /\ UNCHANGED <<paths, temporary_files>>
          \/ /\ Raise("OSError")                             \* mkstemp raises
             /\ UNCHANGED <<paths, temporary_files, fs, created>>
    /\ UNCHANGED <<inputs, files_command_args, pdf_report_path, wkhtmltopdf,
                   returncode, err, pdf_content, unlink_idx, logs,
                   unlink_attempts, popen_count, classify_count, read_count,
                   rendered>>

\* Lines 73-75, after the last body.
CreateOutput ==
    /\ pc = "bodies"
    /\ Len(paths) = Len(bodies)
    /\ \/ /\ \E p \in Mkstemp(PdfPrefix, ".pdf") :
               /\ fs' = (p :> File(<<>>, FALSE)) @@ fs
               /\ created' = created \cup {p}
               /\ pdf_report_path' = p
               /\ temporary_files' = TemporaryFilesAppend(temporary_files, p)
          /\ pc' = "popen"
          /\ UNCHANGED result
       \/ /\ \E p \in Mkstemp(PdfPrefix, ".pdf") :            \* os.close raises
               /\ fs' = (p :> File(<<>>, TRUE)) @@ fs
               /\ created' = created \cup {p}
               /\ pdf_report_path' = p
          /\ Raise("OSError")
          /\ UNCHANGED temporary_files
       \/ /\ Raise("OSError")                                \* mkstemp raises
          /\ UNCHANGED <<pdf_report_path, temporary_files, fs, created>>
    /\ UNCHANGED <<inputs, files_command_args, paths, wkhtmltopdf, returncode,
                   err, pdf_content, unlink_idx, logs, unlink_attempts,
                   popen_count, classify_count, read_count,
                   rendered>>

\* Lines 77-82 and 103-104: the command is built and the process started; an
\* exception is re-raised as it is.
Popen ==
    /\ pc = "popen"
    /\ \/ /\ wkhtmltopdf' = Command(WkhtmltopdfBin, command_args,
                                    files_command_args, paths, pdf_report_path)
          /\ popen_count' = popen_count + 1
          /\ pc' = "communicate"
          /\ UNCHANGED result
       \/ /\ wkhtmltopdf' = Command(WkhtmltopdfBin, command_args,
                                    files_command_args, paths, pdf_report_path)
          /\ Raise("OSError")                   \* subprocess.Popen raises
          /\ UNCHANGED popen_count
       \/ /\ Raise("IOError")                   \* find_in_path raises
          /\ UNCHANGED <<wkhtmltopdf, popen_count>>
    /\ UNCHANGED <<inputs, files_command_args, temporary_files, paths,
                   pdf_report_path, returncode, err, pdf_content, unlink_idx,
                   logs, fs, created, unlink_attempts, classify_count,
                   read_count,
                   rendered>>

\* Line 83: the process runs to its end.  It writes what it rendered to the
\* last word of its command line and exits with a code and a stderr.
CommunicateWith(E) ==
    /\ pc = "communicate"
    /\ \E rc \in ExitCodes, e \in E, out \in PdfOutputs :
        /\ returncode' = <<rc>>
        /\ err' = e
        /\ rendered' = out
        /\ LET target == wkhtmltopdf[Len(wkhtmltopdf)]
           IN fs' = IF Exists(target)
                    THEN [fs EXCEPT ![target] = File(out, FALSE)]
                    ELSE fs
    /\ pc' = "classify"
    /\ UNCHANGED <<inputs, files_command_args, temporary_files, paths,
                   pdf_report_path, wkhtmltopdf, pdf_content, unlink_idx,
                   result, logs, created, unlink_attempts, popen_count,
                   classify_count, read_count>>

Communicate == CommunicateWith(ErrInputs)

\* Lines 93-104.
Classify ==
    /\ pc = "classify"
    /\ classify_count' = classify_count + 1
    /\ LET rc == returncode[1]
       IN \/ /\ Fatal(rc)
             /\ pc' = "raised"
             /\ result' = Raised("UserError", UserErrorMessage(rc, err))
             /\ UNCHANGED log_warning
          \/ /\ ~Fatal(rc)
             /\ log_warning' = IF Warns(rc, err)
                               THEN Append(log_warning, err)
                               ELSE log_warning
             /\ pc' = "read"
             /\ UNCHANGED result
    /\ UNCHANGED <<inputs, files_command_args, temporary_files, paths,
                   pdf_report_path, wkhtmltopdf, returncode, err, pdf_content,
                   unlink_idx, log_error, fs, created, unlink_attempts,
                   popen_count, read_count,
                   rendered>>

\* Lines 106-107.
ReadPdf ==
    /\ pc = "read"
    /\ \/ /\ Exists(pdf_report_path)
          /\ pdf_content' = fs[pdf_report_path].content
          /\ read_count' = read_count + 1
          /\ unlink_idx' = 1
          /\ pc' = "cleanup"
          /\ UNCHANGED result
       \/ /\ Raise("IOError")                   \* open or read raises
          /\ UNCHANGED <<pdf_content, read_count, unlink_idx>>
    /\ UNCHANGED <<inputs, files_command_args, temporary_files, paths,
                   pdf_report_path, wkhtmltopdf, returncode, err, logs, fs,
                   created, unlink_attempts, popen_count, classify_count,
                   rendered>>

\* Lines 110-114: one iteration of the clean-up loop.
Unlink ==
    /\ pc = "cleanup"
    /\ unlink_idx <= Len(temporary_files)
    /\ LET f == temporary_files[unlink_idx]
       IN /\ unlink_attempts' = [unlink_attempts EXCEPT ![f] = @ + 1]
          /\ \/ /\ Exists(f)
                /\ fs' = Remove(f)
                /\ unlink_idx' = unlink_idx + 1
                /\ UNCHANGED log_error
             \/ /\ log_error' = Append(log_error, f)    \* OSError, IOError
                /\ unlink_idx' = AfterUnlinkError(unlink_idx)
                /\ UNCHANGED fs
    /\ UNCHANGED <<pc, inputs, files_command_args, temporary_files, paths,
                   pdf_report_path, wkhtmltopdf, returncode, err, pdf_content,
                   result, log_warning, created, popen_count, classify_count,
                   read_count,
                   rendered>>

\* Line 116.
Return ==
    /\ pc = "cleanup"
    /\ unlink_idx > Len(temporary_files)
    /\ pc' = "returned"
    /\ result' = Returned(pdf_content)
    /\ UNCHANGED <<inputs, files_command_args, temporary_files, paths,
                   pdf_report_path, wkhtmltopdf, returncode, err, pdf_content,
                   unlink_idx, logs, fs, created, unlink_attempts, popen_count,
                   classify_count, read_count,
                   rendered>>

Next ==
    \/ Call
    \/ StageHeader
    \/ StageFooter
    \/ StageBody
    \/ CreateOutput
    \/ Popen
    \/ Communicate
    \/ Classify
    \/ ReadPdf
    \/ Unlink
    \/ Return

Spec == Init /\ [][Next]_vars

\* The same call with few arguments and a stderr of up to
\* StderrTail + MaxErrExtra units.
CallFew ==
    CallWith({None, Bytes(<<104>>)}, {None, Bytes(<<102>>)},
             {<<>>, <<(<<98>>)>>}, {<<Word("--quiet")>>})

CommunicateLongErr == CommunicateWith(LongErrInputs)

NextErr ==
    \/ CallFew
    \/ StageHeader
    \/ StageFooter
    \/ StageBody
    \/ CreateOutput
    \/ Popen
    \/ CommunicateLongErr
    \/ Classify
    \/ ReadPdf
    \/ Unlink
    \/ Return

SpecErr == Init /\ [][NextErr]_vars

Ended == pc \in {"returned", "raised"}

\* ------------------------------------------------------------------ properties

Exited == returncode # <<>>
ExitCode == returncode[1]
Classified == classify_count > 0
NonEmpty(x) == ~x.isNone /\ x.bytes # <<>>
RaisedExc(e) == pc = "raised" /\ result.kind = "raise" /\ result.exc = e
Positions(seq, x) == {j \in 1..Len(seq) : seq[j] = x}

DigitValue(c) == (CHOOSE d \in 1..10 : DigitChars[d] = c) - 1

RECURSIVE DigitsToNat(_)
DigitsToNat(ds) ==
    IF Len(ds) = 0 THEN 0
    ELSE 10 * DigitsToNat(SubSeq(ds, 1, Len(ds) - 1)) + DigitValue(ds[Len(ds)])

StrToInt(ds) ==
    IF ds[1] = "-" THEN 0 - DigitsToNat(SubSeq(ds, 2, Len(ds)))
    ELSE DigitsToNat(ds)

\* C1: whenever a call has ended, by return or by any exception, every temp
\* file it created has had its deletion attempted.
C1_DeletedOnAllExitPaths ==
    Ended => \A p \in created : unlink_attempts[p] >= 1

\* C2 as stated: once the process exited with code c and the call ended, the
\* call returned the bytes of the output PDF if and only if c is 0 or 1, and
\* for any other c it raised UserError without reading the output PDF.
C2_ReturnsIffZeroOrOne ==
    (Ended /\ Exited) =>
        /\ (result.kind = "return" /\ result.value = rendered)
               <=> ExitCode \in {0, 1}
        /\ ExitCode \notin {0, 1} => RaisedExc("UserError") /\ read_count = 0

\* C2 amended: a call returns only after code 0 or 1 and then returns the
\* bytes of the output PDF; after code 0 or 1 it returns them unless reading
\* the output PDF raised, and never raises UserError; after any other code it
\* raises UserError, never reads the output PDF and returns nothing.
C2_ReturnsIffZeroOrOneAndReadable ==
    (Ended /\ Exited) =>
        /\ result.kind = "return" =>
               ExitCode \in {0, 1} /\ result.value = rendered
        /\ ExitCode \in {0, 1} =>
               IF read_count = 1
               THEN pc = "returned" /\ result.kind = "return"
                    /\ result.value = rendered
               ELSE RaisedExc("IOError")
        /\ ExitCode \notin {0, 1} =>
               /\ RaisedExc("UserError")
               /\ read_count = 0
               /\ result.value = <<>>

C2_Witness ==
    /\ pc = "returned"
    /\ ExitCode = 1
    /\ result.value = rendered
    /\ rendered # <<>>

\* C3 as stated: the exit code alone fixes the outcome: 0 is success with no
\* warning logged, 1 is success with a warning logged, any other code is the
\* fatal error.
C3_WarningByExitCodeAlone ==
    Classified =>
        /\ ExitCode = 0 => ~RaisedExc("UserError") /\ log_warning = <<>>
        /\ ExitCode = 1 => ~RaisedExc("UserError") /\ log_warning # <<>>
        /\ ExitCode \notin {0, 1} => RaisedExc("UserError")

\* C3 amended: the exit code alone fixes whether the call is fatal (0 and 1
\* are not, every other code is); a warning is logged exactly when the code
\* is 0 or 1 and stderr is not empty, and the warning is stderr.
C3_WarningByStderr ==
    Classified =>
        /\ ExitCode \in {0, 1} =>
               /\ ~RaisedExc("UserError")
               /\ log_warning = IF err # <<>> THEN <<err>> ELSE <<>>
        /\ ExitCode \notin {0, 1} =>
               RaisedExc("UserError") /\ log_warning = <<>>

C3_Witness ==
    /\ Classified
    /\ ExitCode = 0
    /\ log_warning = <<err>>
    /\ pc = "returned"

\* C4: on a fatal exit code the UserError text is the memory-limit text for
\* code -11 and the generic text for every other code, and in both cases the
\* text carries the exit code.
C4_OomTextOnlyForMinus11 ==
    (Classified /\ ExitCode \notin {0, 1}) =>
        /\ RaisedExc("UserError")
        /\ result.message.fmt = IF ExitCode = -11 THEN MsgOom ELSE MsgGeneric
        /\ MsgOom # MsgGeneric
        /\ StrToInt(result.message.args[1]) = ExitCode

C4_Witness ==
    /\ RaisedExc("UserError")
    /\ ExitCode = -11
    /\ result.message.fmt = MsgOom
    /\ result.message.args[1] = <<"-", "1", "1">>

C6_UnlinkFailuresNotPropagated ==
    /\ read_count = 1 => pc \in {"cleanup", "returned"}
    /\ pc \in {"cleanup", "returned"} =>
           /\ \A j \in 1..Len(temporary_files) :
                  unlink_attempts[temporary_files[j]] =
                      IF j < unlink_idx THEN 1 ELSE 0
           /\ \A j \in 1..Len(log_error) : Exists(log_error[j])
           /\ \A j \in 1..Len(temporary_files) :
                  (j < unlink_idx /\ Exists(temporary_files[j]))
                      => Positions(log_error, temporary_files[j]) # {}
    /\ pc = "returned" =>
           /\ unlink_idx = Len(temporary_files) + 1
           /\ result.kind = "return"
           /\ result.value = pdf_content
           /\ pdf_content = rendered

C6_Witness ==
    /\ pc = "returned"
    /\ Len(temporary_files) >= 3
    /\ log_error = <<temporary_files[1]>>
    /\ ~Exists(temporary_files[2])
    /\ result.value = rendered
    /\ rendered # <<>>

\* C7: the phases of a call come in one order and each at most once: all
\* input files are written and closed and the output file exists when the
\* process is started; the process is started once and has exited when its
\* code is classified; the output PDF is read only after a 0/1
\* classification; nothing is deleted before the output PDF was read.
C7_PhaseOrder ==
    /\ popen_count <= 1 /\ classify_count <= 1 /\ read_count <= 1
    /\ pc \in {"communicate", "classify", "read", "cleanup", "returned"}
           => popen_count = 1
    /\ popen_count = 1 =>
           /\ Len(paths) = Len(bodies)
           /\ pdf_report_path \in created
           /\ NonEmpty(header) =>
                  \E p \in created : p.prefix = HeaderPrefix
           /\ NonEmpty(footer) =>
                  \E p \in created : p.prefix = FooterPrefix
    /\ pc = "communicate" =>
           /\ \A p \in created : Exists(p) /\ ~fs[p].open
           /\ \A j \in 1..Len(bodies) : fs[paths[j]].content = bodies[j]
           /\ \A p \in created :
                  /\ p.prefix = HeaderPrefix => fs[p].content = header.bytes
                  /\ p.prefix = FooterPrefix => fs[p].content = footer.bytes
    /\ Exited => popen_count = 1
    /\ Classified => Exited
    /\ read_count = 1 => Classified /\ ExitCode \in {0, 1}
    /\ read_count = 0 =>
           /\ \A p \in AllPaths : unlink_attempts[p] = 0
           /\ \A p \in created : Exists(p)

C7_Witness ==
    /\ pc = "returned"
    /\ popen_count = 1 /\ classify_count = 1 /\ read_count = 1
    /\ Len(bodies) = 2
    /\ NonEmpty(header)
    /\ \A p \in created : unlink_attempts[p] = 1

\* C8: the command line handed to the process is the binary, the layout
\* arguments, the header pair, the footer pair, the body paths in the order
\* of the bodies, and the output path, which is the last word and occurs
\* nowhere else.
C8_CommandLineOrder ==
    pc = "communicate" =>
        LET nca == Len(command_args)
            nh == IF NonEmpty(header) THEN 2 ELSE 0
            nf == IF NonEmpty(footer) THEN 2 ELSE 0
            nb == Len(bodies)
            base == 1 + nca + nh + nf
        IN /\ Len(wkhtmltopdf) = base + nb + 1
           /\ wkhtmltopdf[1] = WkhtmltopdfBin
           /\ \A j \in 1..nca : wkhtmltopdf[1 + j] = command_args[j]
           /\ nh = 2 =>
                  /\ wkhtmltopdf[2 + nca] = Word("--header-html")
                  /\ wkhtmltopdf[3 + nca].prefix = HeaderPrefix
                  /\ wkhtmltopdf[3 + nca] \in created
                  /\ fs[wkhtmltopdf[3 + nca]].content = header.bytes
           /\ nf = 2 =>
                  /\ wkhtmltopdf[2 + nca + nh] = Word("--footer-html")
                  /\ wkhtmltopdf[3 + nca + nh].prefix = FooterPrefix
                  /\ wkhtmltopdf[3 + nca + nh] \in created
                  /\ fs[wkhtmltopdf[3 + nca + nh]].content = footer.bytes
           /\ \A j \in 1..nb :
                  /\ wkhtmltopdf[base + j] = paths[j]
                  /\ paths[j] \in created
                  /\ paths[j].prefix = BodyPrefix(j - 1)
                  /\ fs[paths[j]].content = bodies[j]
           /\ wkhtmltopdf[base + nb + 1] = pdf_report_path
           /\ pdf_report_path \in created
           /\ Positions(wkhtmltopdf, pdf_report_path) = {Len(wkhtmltopdf)}

C8_Witness ==
    /\ pc = "communicate"
    /\ NonEmpty(header) /\ NonEmpty(footer)
    /\ Len(bodies) = 2
    /\ bodies[1] # bodies[2]
    /\ Len(wkhtmltopdf) = Len(command_args) + 8

\* C9: a header (footer) temp file is created, and its pair is put on the
\* command line, exactly when the header (footer) argument is neither None
\* nor empty; a call whose staging is complete has created
\* len(bodies) + 1 + one per non-empty header/footer temp files.
C9_OptionalHeaderFooter ==
    LET hfiles == {p \in created : p.prefix = HeaderPrefix}
        ffiles == {p \in created : p.prefix = FooterPrefix}
        nh == IF NonEmpty(header) THEN 1 ELSE 0
        nf == IF NonEmpty(footer) THEN 1 ELSE 0
    IN /\ hfiles # {} => NonEmpty(header)
       /\ ffiles # {} => NonEmpty(footer)
       /\ Positions(files_command_args, Word("--header-html")) # {}
              => NonEmpty(header)
       /\ Positions(files_command_args, Word("--footer-html")) # {}
              => NonEmpty(footer)
       /\ Positions(temporary_files, pdf_report_path) # {} =>
              /\ Cardinality(hfiles) = nh
              /\ Cardinality(ffiles) = nf
              /\ Cardinality(Positions(files_command_args,
                                       Word("--header-html"))) = nh
              /\ Cardinality(Positions(files_command_args,
                                       Word("--footer-html"))) = nf
              /\ Len(files_command_args) = 2 * (nh + nf)
              /\ Cardinality(created) = Len(bodies) + 1 + nh + nf
              /\ Len(temporary_files) = Len(bodies) + 1 + nh + nf

C9_Witness ==
    /\ pc = "communicate"
    /\ header = Bytes(<<>>)
    /\ NonEmpty(footer)
    /\ bodies = <<>>
    /\ Cardinality(created) = 2
    /\ files_command_args[1] = Word("--footer-html")

\* C10: when a call returns and no deletion failed, no temp file it created
\* exists any more; each was registered once in the clean-up list and had
\* its deletion attempted once, and nothing else was registered or deleted.
C10_NoLeakNoDoubleDelete ==
    (pc = "returned" /\ log_error = <<>>) =>
        /\ \A p \in created :
               /\ ~Exists(p)
               /\ Cardinality(Positions(temporary_files, p)) = 1
               /\ unlink_attempts[p] = 1
        /\ \A p \in AllPaths \ created :
               /\ Positions(temporary_files, p) = {}
               /\ unlink_attempts[p] = 0

C10_Witness ==
    /\ pc = "returned"
    /\ log_error = <<>>
    /\ NonEmpty(header) /\ NonEmpty(footer)
    /\ Len(bodies) = 2
    /\ Cardinality(created) = 5
    /\ \A p \in created : ~Exists(p)
====
